---- MODULE Spec2Model ----
(***************************************************************************)
(* The incremental synchronisation engine of the live map (LiveMap.tsx)     *)
(* and the local point cache it writes (cacheService.ts).                   *)
(*                                                                          *)
(* A location point is modelled by its two time fields: timestampMs (0     *)
(* when the field is missing or zero) and the raw timestamp, a value tagged *)
(* with what it is at run time.  The remote store of a session holds the    *)
(* points 1..remote[s] and only grows.  A getDocs query reads the           *)
(* collection as of the moment it is issued and resolves (or rejects) at    *)
(* any later moment.  The string stored under a key is modelled by the      *)
(* JSON value it denotes.                                                   *)
(***************************************************************************)
EXTENDS Integers, Sequences, FiniteSets, Bags, TLC

(* ------------------------------ bounds --------------------------------- *)
MaxTs == 2
MaxRuns == 2
MaxInflight == 2
MaxLen == 4
MaxPoints == 2
MaxInput == 1
MaxLocs == 3

(* --------------------------- program constants ------------------------- *)
CACHE_VERSION == "v1"
MAX_CACHE_AGE_MS == 86400000

SessionIds == {"a", "b"}
\* The values the sessions prop takes (Dashboard hands LiveMap a new array on
\* every snapshot of the sessions collection).
SessionLists == {<<>>, <<"a">>, <<"a", "b">>}

VARIABLES
    sessions,               \* LiveMap's sessions prop of the latest render
    runs,                   \* one record per run of the [sessions] effect
    hasCleanup,             \* the latest effect run returned a cleanup
    pollingIntervalRef,     \* 0 (null) or the run whose setInterval it holds
    timers,                 \* runs whose setInterval is active
    sessionsWithLocations,  \* the in-memory view, per session id
    lastTimestampsRef,      \* the cursor map (0: no entry)
    localStorage,           \* the value stored under prizma_cache_<id>
    now,                    \* Date.now()
    remote,                 \* number of points in locations/<id>/points
    inflight,               \* bag of delta fetches awaiting getDocs
    stalled,                \* delta fetches whose getDocs never resolves
    call                    \* the latest direct call of an exported function

react == <<sessions, hasCleanup>>
timing == <<pollingIntervalRef, timers>>
stores == <<sessionsWithLocations, lastTimestampsRef, localStorage>>
world == <<now, remote>>

vars == <<sessions, runs, hasCleanup, pollingIntervalRef, timers,
          sessionsWithLocations, lastTimestampsRef, localStorage, now,
          remote, inflight, stalled, call>>

(* ------------------------------ points --------------------------------- *)
\* the raw timestamp of a point: a Firestore Timestamp, a Date, or what
\* JSON text gives back for them (a plain object, a string); ms is the
\* instant it denotes
RawTimestamp(type, ms) == [type |-> type, ms |-> ms]

NoTimestamp == RawTimestamp("undefined", 0)

LocationPoint(timestampMs, timestamp) ==
    [timestampMs |-> timestampMs, timestamp |-> timestamp]

\* the document the device wrote at instant k, as doc.data() returns it
Doc(k) == LocationPoint(k, RawTimestamp("Timestamp", k))

TimestampMs(p) == p.timestampMs

\* timestampMs || (timestamp instanceof Date ? getTime() : toMillis?.()) || 0
resolveMillis(p) ==
    IF p.timestampMs # 0 THEN p.timestampMs
    ELSE IF p.timestamp.type = "Date" THEN p.timestamp.ms
    ELSE IF p.timestamp.type = "Timestamp" THEN p.timestamp.ms
    ELSE 0

\* JSON.stringify of a point, as JSON.parse reads it back: a Date has become
\* its ISO string, a Timestamp the plain object of its fields
stringifyPoint(p) ==
    [p EXCEPT !.timestamp =
        IF @.type = "Date" THEN RawTimestamp("string", @.ms)
        ELSE IF @.type = "Timestamp" THEN RawTimestamp("object", @.ms)
        ELSE @]

stringify(points) == [k \in 1..Len(points) |-> stringifyPoint(points[k])]

Last(seq) == seq[Len(seq)]

RECURSIVE Range(_, _)
\* the points lo+1 .. hi, ascending: what orderBy('timestampMs','asc') returns
Range(lo, hi) == IF hi <= lo THEN <<>> ELSE Append(Range(lo, hi - 1), Doc(hi))

RECURSIVE SeqMax(_)
SeqMax(seq) ==
    IF seq = <<>> THEN 0
    ELSE LET m == SeqMax(Tail(seq))
         IN IF TimestampMs(Head(seq)) > m THEN TimestampMs(Head(seq)) ELSE m

NonDecreasing(seq) ==
    \A i \in 1..(Len(seq) - 1) : TimestampMs(seq[i]) <= TimestampMs(seq[i + 1])

(* --------------------------- cacheService ------------------------------ *)
NoEntry == [kind |-> "none", points |-> <<>>, lastTimestamp |-> 0,
            cachedAt |-> 0, version |-> ""]

CachedSession(points, lastTimestamp, cachedAt, version) ==
    [kind |-> "entry", points |-> points, lastTimestamp |-> lastTimestamp,
     cachedAt |-> cachedAt, version |-> version]

\* clearSessionCache removing every key under the prefix, as clearAllCaches
clearSessionCacheAll(st, sessionId) == [k \in DOMAIN st |-> NoEntry]

clearSessionCache(st, sessionId) == [st EXCEPT ![sessionId] = NoEntry]

\* a stored string that JSON.parse rejects
Garbage == [NoEntry EXCEPT !.kind = "garbage"]

\* an entry is removed when it is too old, and when it cannot be parsed
clearOldCaches(st, t) ==
    [k \in DOMAIN st |->
        IF st[k].kind = "none" THEN st[k]
        ELSE IF st[k].kind = "garbage" THEN NoEntry
        ELSE IF t - st[k].cachedAt > MAX_CACHE_AGE_MS THEN NoEntry
        ELSE st[k]]

\* saveSessionPoints whose catch only logs
saveSessionPointsNoEviction(st, sessionId, points, t, writeOk) ==
    IF writeOk
    THEN [st EXCEPT ![sessionId] =
            CachedSession(stringify(points),
                          IF Len(points) > 0 /\ TimestampMs(Last(points)) # 0
                          THEN TimestampMs(Last(points)) ELSE t,
                          t, CACHE_VERSION)]
    ELSE st

\* writeOk: localStorage.setItem did not throw
saveSessionPoints(st, sessionId, points, t, writeOk) ==
    LET lastTimestamp ==
            IF Len(points) > 0
            THEN (IF TimestampMs(Last(points)) # 0
                  THEN TimestampMs(Last(points)) ELSE t)
            ELSE t
    IN IF writeOk
       THEN [st EXCEPT ![sessionId] =
                CachedSession(stringify(points), lastTimestamp, t,
                              CACHE_VERSION)]
       ELSE clearOldCaches(st, t)

\* what loadSessionPoints returns for null
Absent(st) == [found |-> FALSE, points |-> <<>>, lastTimestamp |-> 0,
               storage |-> st]

Present(st, data) == [found |-> TRUE, points |-> data.points,
                      lastTimestamp |-> data.lastTimestamp, storage |-> st]

\* loadSessionPoints with age >= MAX_CACHE_AGE_MS as the expiry test
loadSessionPointsAtLimit(st, sessionId, t) ==
    LET data == st[sessionId]
    IN IF data.kind = "none" \/ data.kind = "garbage" THEN Absent(st)
       ELSE IF data.version # CACHE_VERSION
            THEN Absent(clearSessionCache(st, sessionId))
       ELSE IF t - data.cachedAt >= MAX_CACHE_AGE_MS
            THEN Absent(clearSessionCache(st, sessionId))
       ELSE Present(st, data)

\* loadSessionPoints with the expiry test before the version test, and no
\* version test for an entry that is not expired
loadSessionPointsAnyVersion(st, sessionId, t) ==
    LET data == st[sessionId]
    IN IF data.kind = "none" \/ data.kind = "garbage" THEN Absent(st)
       ELSE IF t - data.cachedAt > MAX_CACHE_AGE_MS
            THEN Absent(clearSessionCache(st, sessionId))
       ELSE Present(st, data)

\* loadSessionPoints whose catch removes the key
loadSessionPointsEvictCorrupt(st, sessionId, t) ==
    LET data == st[sessionId]
    IN IF data.kind = "none" THEN Absent(st)
       ELSE IF data.kind = "garbage"
            THEN Absent(clearSessionCache(st, sessionId))
       ELSE IF data.version # CACHE_VERSION
            THEN Absent(clearSessionCache(st, sessionId))
       ELSE IF t - data.cachedAt > MAX_CACHE_AGE_MS
            THEN Absent(clearSessionCache(st, sessionId))
       ELSE Present(st, data)

\* the value returned (found, points, lastTimestamp) and the storage left
loadSessionPoints(st, sessionId, t) ==
    LET data == st[sessionId]
    IN IF data.kind = "none" THEN Absent(st)
       ELSE IF data.kind = "garbage" THEN Absent(st)
       ELSE IF data.version # CACHE_VERSION
            THEN Absent(clearSessionCache(st, sessionId))
       ELSE IF t - data.cachedAt > MAX_CACHE_AGE_MS
            THEN Absent(clearSessionCache(st, sessionId))
       ELSE Present(st, data)

\* appendPoints with the two spreads swapped
appendPointsNewFirst(st, sessionId, newPoints, t, writeOk) ==
    LET cached == loadSessionPoints(st, sessionId, t)
    IN IF ~cached.found
       THEN saveSessionPoints(cached.storage, sessionId, newPoints, t, writeOk)
       ELSE saveSessionPoints(cached.storage, sessionId,
                              newPoints \o cached.points, t, writeOk)

appendPoints(st, sessionId, newPoints, t, writeOk) ==
    LET cached == loadSessionPoints(st, sessionId, t)
    IN IF ~cached.found
       THEN saveSessionPoints(cached.storage, sessionId, newPoints, t, writeOk)
       ELSE saveSessionPoints(cached.storage, sessionId,
                              cached.points \o newPoints, t, writeOk)

\* a call of cacheService (or of speedColors: the function, its argument
\* and what it returned) as its caller sees it: the method, its arguments,
\* whether its setItem went through, the value stored under the key before,
\* and what the call returned
Call(op, sessionId, points, writeOk, before, found, returned, lastTimestamp) ==
    [op |-> op, sessionId |-> sessionId, points |-> points,
     writeOk |-> writeOk, before |-> before, found |-> found,
     returned |-> returned, lastTimestamp |-> lastTimestamp]

NoCall == Call("none", "", <<>>, TRUE, NoEntry, FALSE, <<>>, 0)

(* ------------------------- LiveMap: helpers ---------------------------- *)
\* localStorage.setItem outcomes the engine runs are checked under
SetItemOutcomes == {TRUE}

NoView == [present |-> FALSE, locations |-> <<>>]

\* setSessionsWithLocations(results)
ViewOf(results) ==
    [s \in SessionIds |->
        IF \E k \in 1..Len(results) : results[k].session = s
        THEN LET k == CHOOSE k \in 1..Len(results) : results[k].session = s
             IN [present |-> TRUE, locations |-> results[k].locations]
        ELSE NoView]

\* a delta fetch awaiting getDocs: the query where timestampMs > cur, read
\* when remote held hi points; a poll fetch carries the rest of its tick's
\* loop (ss, i) and whether the loop's previous loadNewPointsForSession went
\* through its catch (caught), a catch-up fetch is not awaited by anyone
Fetch(kind, ss, i, cur, hi, caught) ==
    [kind |-> kind, ss |-> ss, i |-> i, cur |-> cur, hi |-> hi,
     caught |-> caught]

FetchSession(f) == f.ss[f.i]

One(f) == SetToBag({f})

\* one run of the effect: the sessions its closures hold (ss), the sessions
\* prop of the render before (prev), where its initializeAndPoll() stands
\* (phase: delay, fetching, hung, polling; idle: it returned early, ss being
\* empty), the session whose full fetch it awaits (i), the
\* collection as that fetch read it (hi) and loadAllSessions' results array
Run(ss, prev, phase, i, results, hi) ==
    [ss |-> ss, prev |-> prev, phase |-> phase, i |-> i,
     results |-> results, hi |-> hi]

\* loadAllSessions without the cache branch: every session is fetched in full
loadAllSessionsFromNoCache(ss, i, h) ==
    IF i > Len(ss) THEN [h EXCEPT !.next = 0] ELSE [h EXCEPT !.next = i]

RECURSIVE loadAllSessionsFrom(_, _, _)
\* loadAllSessions' for loop from index i up to its next await: h.next is the
\* index of the session whose full fetch is awaited, 0 when the loop is over
loadAllSessionsFrom(ss, i, h) ==
    IF i > Len(ss) THEN [h EXCEPT !.next = 0]
    ELSE LET s == ss[i]
             cached == loadSessionPoints(h.storage, s, h.t)
         IN IF cached.found
            THEN loadAllSessionsFrom(ss, i + 1,
                    [h EXCEPT
                       !.storage = cached.storage,
                       !.results = Append(@, [session |-> s,
                                              locations |-> cached.points]),
                       !.lastTimestamps[s] = cached.lastTimestamp,
                       !.inflight = @ (+) One(Fetch("catchup", <<s>>, 1,
                                          cached.lastTimestamp, h.remote[s],
                                          FALSE))])
            ELSE [h EXCEPT !.storage = cached.storage, !.next = i]

\* the state a run's loadAllSessions works on
Hydration(results) ==
    [storage |-> localStorage, lastTimestamps |-> lastTimestampsRef,
     results |-> results, inflight |-> inflight, t |-> now,
     remote |-> remote, next |-> 0]

\* what is left of run r's initializeAndPoll once loadAllSessions stopped at
\* h: awaiting a full fetch, or done: the view is set and the timer created
Settle(r, h) ==
    /\ localStorage' = h.storage
    /\ lastTimestampsRef' = h.lastTimestamps
    /\ inflight' = h.inflight
    /\ IF h.next # 0
       THEN /\ runs' = [runs EXCEPT ![r] =
                   Run(@.ss, @.prev, "fetching", h.next, h.results,
                       remote[@.ss[h.next]])]
            /\ UNCHANGED <<sessionsWithLocations, pollingIntervalRef, timers>>
       ELSE /\ runs' = [runs EXCEPT ![r] = Run(@.ss, @.prev, "polling", 0, <<>>, 0)]
            /\ sessionsWithLocations' = ViewOf(h.results)
            /\ pollingIntervalRef' = r
            /\ timers' = timers \cup {r}

(* ------------------------- LiveMap: actions ---------------------------- *)
\* the sessions prop changes: the previous effect's cleanup, then the effect
SetSessions(ss) ==
    /\ ss \in SessionLists
    /\ Len(runs) < MaxRuns
    /\ sessions' = ss
    /\ timers' = IF hasCleanup /\ pollingIntervalRef # 0
                 THEN timers \ {pollingIntervalRef} ELSE timers
    /\ IF ss = <<>>
       THEN /\ sessionsWithLocations' = [s \in SessionIds |-> NoView]
            /\ hasCleanup' = FALSE
            /\ runs' = Append(runs, Run(ss, sessions, "idle", 0, <<>>, 0))
       ELSE /\ runs' = Append(runs, Run(ss, sessions, "delay", 0, <<>>, 0))
            /\ hasCleanup' = TRUE
            /\ UNCHANGED sessionsWithLocations
    /\ UNCHANGED <<pollingIntervalRef, lastTimestampsRef, localStorage, world,
                   inflight, stalled, call>>

\* the 2 s startup timeout of run r fires: loadAllSessions starts
StartupDelayDone(r) ==
    /\ runs[r].phase = "delay"
    /\ Settle(r, loadAllSessionsFrom(runs[r].ss, 1, Hydration(<<>>)))
    /\ UNCHANGED <<react, world, stalled, call>>

\* the full fetch run r awaits resolves
FullFetchOk(r) ==
    /\ runs[r].phase = "fetching"
    /\ \E ok \in SetItemOutcomes :
         LET s == runs[r].ss[runs[r].i]
             locations == Range(0, runs[r].hi)
             h0 == Hydration(Append(runs[r].results,
                      [session |-> s, locations |-> locations]))
             h1 == IF Len(locations) > 0
                   THEN [h0 EXCEPT
                          !.storage = saveSessionPoints(@, s, locations, now, ok),
                          !.lastTimestamps[s] =
                              IF TimestampMs(Last(locations)) # 0
                              THEN TimestampMs(Last(locations)) ELSE now]
                   ELSE h0
         IN Settle(r, loadAllSessionsFrom(runs[r].ss, runs[r].i + 1, h1))
    /\ UNCHANGED <<react, world, stalled, call>>

\* the full fetch run r awaits rejects: the catch logs, the loop goes on
FullFetchFail(r) ==
    /\ runs[r].phase = "fetching"
    /\ Settle(r, loadAllSessionsFrom(runs[r].ss, runs[r].i + 1,
                                     Hydration(runs[r].results)))
    /\ UNCHANGED <<react, world, stalled, call>>

\* loadNewPointsOnly's loop reaches index i: the cursor is read and the
\* delta fetch issued; past the end there is nothing left of the loop
Continue(ss, i, cursors, caught) ==
    IF i > Len(ss) THEN EmptyBag
    ELSE One(Fetch("poll", ss, i, cursors[ss[i]], remote[ss[i]], caught))

\* run r's interval fires: loadNewPointsOnly()
Tick(r) ==
    /\ r \in timers
    /\ BagCardinality(inflight) < MaxInflight
    /\ inflight' = inflight (+)
                    Continue(runs[r].ss, 1, lastTimestampsRef, FALSE)
    /\ UNCHANGED <<react, runs, timing, stores, world, stalled, call>>

\* the updater of loadNewPointsForSession on the view
MergeView(view, sessionId, newPoints) ==
    [s \in SessionIds |->
        IF s = sessionId /\ view[s].present
        THEN [present |-> TRUE, locations |-> view[s].locations \o newPoints]
        ELSE view[s]]

\* the cursor map after the updater ran
MergeCursor(view, cursors, sessionId, newPoints, t) ==
    IF view[sessionId].present
    THEN [cursors EXCEPT ![sessionId] =
            IF TimestampMs(Last(newPoints)) # 0
            THEN TimestampMs(Last(newPoints)) ELSE t]
    ELSE cursors

\* delta fetch f resolves
DeltaOk(f) ==
    /\ BagIn(f, inflight)
    /\ LET sessionId == FetchSession(f)
           newPoints == Range(f.cur, f.hi)
       IN /\ IF newPoints = <<>>
             THEN UNCHANGED <<localStorage, sessionsWithLocations>>
                  /\ lastTimestampsRef' = lastTimestampsRef
             ELSE /\ Len(localStorage[sessionId].points) + Len(newPoints) <= MaxLen
                  /\ Len(sessionsWithLocations[sessionId].locations)
                        + Len(newPoints) <= MaxLen
                  /\ \E ok \in SetItemOutcomes :
                        localStorage' = appendPoints(localStorage, sessionId,
                                                     newPoints, now, ok)
                  /\ sessionsWithLocations' =
                        MergeView(sessionsWithLocations, sessionId, newPoints)
                  /\ lastTimestampsRef' =
                        MergeCursor(sessionsWithLocations, lastTimestampsRef,
                                    sessionId, newPoints, now)
          /\ inflight' = (inflight (-) One(f)) (+)
                IF f.kind = "poll"
                THEN Continue(f.ss, f.i + 1, lastTimestampsRef', FALSE)
                ELSE EmptyBag
    /\ UNCHANGED <<react, runs, timing, world, stalled, call>>

\* DeltaFail without the try/catch of loadNewPointsForSession: the rejection
\* ends loadNewPointsOnly
DeltaFailUncaught(f) ==
    /\ BagIn(f, inflight)
    /\ inflight' = inflight (-) One(f)
    /\ UNCHANGED <<react, runs, timing, stores, world, stalled, call>>

\* delta fetch f rejects: the catch logs and returns
DeltaFail(f) ==
    /\ BagIn(f, inflight)
    /\ inflight' = (inflight (-) One(f)) (+)
          IF f.kind = "poll"
          THEN Continue(f.ss, f.i + 1, lastTimestampsRef, TRUE)
          ELSE EmptyBag
    /\ UNCHANGED <<react, runs, timing, stores, world, stalled, call>>

\* a worker's device writes the next point of session s
RemoteAppend(s) ==
    /\ remote[s] < MaxTs
    /\ remote' = [remote EXCEPT ![s] = @ + 1]
    /\ UNCHANGED <<react, runs, timing, stores, now, inflight, stalled, call>>

\* the getDocs of delta fetch f never resolves: its loop never goes on
DeltaStall(f) ==
    /\ BagIn(f, inflight)
    /\ stalled = {}
    /\ \A r \in 1..Len(runs) : runs[r].phase # "hung"
    /\ inflight' = inflight (-) One(f)
    /\ stalled' = {f}
    /\ UNCHANGED <<react, runs, timing, stores, world, call>>

\* the getDocs of the full fetch run r awaits never resolves
FullFetchStall(r) ==
    /\ runs[r].phase = "fetching"
    /\ stalled = {}
    /\ \A q \in 1..Len(runs) : runs[q].phase # "hung"
    /\ runs' = [runs EXCEPT ![r].phase = "hung"]
    /\ UNCHANGED <<react, timing, stores, world, inflight, stalled, call>>

(* ------------------- cacheService called on its own -------------------- *)
\* the points a caller hands to the cache: a document with both fields, a
\* legacy one with a Date and no timestampMs, one with timestampMs alone
InputPoints == {Doc(1),
                LocationPoint(0, RawTimestamp("Date", 2)),
                LocationPoint(2, NoTimestamp)}

RECURSIVE SeqsUpTo(_, _)
SeqsUpTo(S, n) ==
    IF n = 0 THEN {<<>>}
    ELSE LET shorter == SeqsUpTo(S, n - 1)
         IN shorter \cup {Append(q, x) : q \in shorter, x \in S}

InputSeqs == SeqsUpTo(InputPoints, MaxInput)

\* the instants Date.now() is read at: around the end of the retention
\* window of what was cached at 0
ClockTimes == {0, 1, MAX_CACHE_AGE_MS, MAX_CACHE_AGE_MS + 1}

\* what localStorage may hold under a key when the page loads
StoredAtLoad ==
    {NoEntry, Garbage,
     CachedSession(stringify(<<Doc(1)>>), 1, 0, CACHE_VERSION),
     CachedSession(stringify(<<Doc(1)>>), 1, 0, "v0")}

engine == <<react, runs, timing, sessionsWithLocations, lastTimestampsRef,
            remote, inflight, stalled>>

Save(sessionId, points, writeOk) ==
    /\ localStorage' = saveSessionPoints(localStorage, sessionId, points, now,
                                         writeOk)
    /\ call' = Call("save", sessionId, points, writeOk,
                    localStorage[sessionId], FALSE, <<>>, 0)
    /\ UNCHANGED <<engine, now>>

Load(sessionId) ==
    /\ LET cached == loadSessionPoints(localStorage, sessionId, now)
       IN /\ localStorage' = cached.storage
          /\ call' = Call("load", sessionId, <<>>, TRUE,
                          localStorage[sessionId], cached.found,
                          cached.points, cached.lastTimestamp)
    /\ UNCHANGED <<engine, now>>

AppendPoints(sessionId, newPoints, writeOk) ==
    /\ Len(localStorage[sessionId].points) + Len(newPoints) <= MaxPoints
    /\ localStorage' = appendPoints(localStorage, sessionId, newPoints, now,
                                    writeOk)
    /\ call' = Call("append", sessionId, newPoints, writeOk,
                    localStorage[sessionId], FALSE, <<>>, 0)
    /\ UNCHANGED <<engine, now>>

Clear(sessionId) ==
    /\ localStorage' = clearSessionCache(localStorage, sessionId)
    /\ call' = Call("clear", sessionId, <<>>, TRUE, localStorage[sessionId],
                    FALSE, <<>>, 0)
    /\ UNCHANGED <<engine, now>>

ClearOld ==
    /\ localStorage' = clearOldCaches(localStorage, now)
    /\ call' = Call("clearOld", "", <<>>, TRUE, NoEntry, FALSE, <<>>, 0)
    /\ UNCHANGED <<engine, now>>

\* time passes
AdvanceClock(t) ==
    /\ t \in ClockTimes
    /\ t > now
    /\ now' = t
    /\ UNCHANGED <<engine, localStorage, call>>

(* ----------------------------- speedColors ----------------------------- *)
\* a point as createSpeedSegments reads it
GeoPoint(latitude, longitude, timestampMs, timestamp) ==
    [latitude |-> latitude, longitude |-> longitude,
     timestampMs |-> timestampMs, timestamp |-> timestamp]

Abs(x) == IF x < 0 THEN -x ELSE x

\* the great-circle distance in metres, for points of one meridian whose
\* latitudes are counted in metres of arc
calculateDistance(lat1, lon1, lat2, lon2) == Abs(lat2 - lat1)

\* a speed in km/h as the quotient num / den; den = 0 is Infinity or NaN
Kmh(num, den) == [num |-> num, den |-> den]

\* speedKmh < limit, false for Infinity and NaN
Below(speedKmh, limit) ==
    speedKmh.den > 0 /\ speedKmh.num < limit * speedKmh.den

\* getColorForSpeed with <= in the place of <
getColorForSpeedInclusive(speedKmh) ==
    IF speedKmh.den > 0 /\ speedKmh.num <= 5 * speedKmh.den THEN "#10B981"
    ELSE IF speedKmh.den > 0 /\ speedKmh.num <= 20 * speedKmh.den THEN "#3B82F6"
    ELSE IF speedKmh.den > 0 /\ speedKmh.num <= 50 * speedKmh.den THEN "#F59E0B"
    ELSE IF speedKmh.den > 0 /\ speedKmh.num <= 80 * speedKmh.den THEN "#F97316"
    ELSE "#EF4444"

getColorForSpeed(speedKmh) ==
    IF Below(speedKmh, 5) THEN "#10B981"
    ELSE IF Below(speedKmh, 20) THEN "#3B82F6"
    ELSE IF Below(speedKmh, 50) THEN "#F59E0B"
    ELSE IF Below(speedKmh, 80) THEN "#F97316"
    ELSE "#EF4444"

\* the segment pushed for the pair (loc1, loc2): distance / timeDiff * 3.6
\* with timeDiff = (time2 - time1) / 1000 is distance * 3600 / (time2 - time1)
SpeedSegment(loc1, loc2) ==
    LET distance == calculateDistance(loc1.latitude, loc1.longitude,
                                      loc2.latitude, loc2.longitude)
        speedKmh == Kmh(distance * 3600,
                        resolveMillis(loc2) - resolveMillis(loc1))
    IN [positions |-> << <<loc1.latitude, loc1.longitude>>,
                         <<loc2.latitude, loc2.longitude>> >>,
        color |-> getColorForSpeed(speedKmh),
        speedKmh |-> speedKmh]

RECURSIVE SegmentsFrom(_, _, _)
\* the for loop of createSpeedSegments from index i on
SegmentsFrom(locations, i, segments) ==
    IF i > Len(locations) - 1 THEN segments
    ELSE LET time1 == resolveMillis(locations[i])
             time2 == resolveMillis(locations[i + 1])
         IN IF time2 - time1 <= 0
            THEN SegmentsFrom(locations, i + 1, segments)
            ELSE SegmentsFrom(locations, i + 1,
                    Append(segments,
                           SpeedSegment(locations[i], locations[i + 1])))

\* createSpeedSegments that skips a pair only when time runs backwards
createSpeedSegmentsZeroKept(locations) ==
    LET diff(i) == resolveMillis(locations[i + 1]) - resolveMillis(locations[i])
        kept == SelectSeq([i \in 1..(Len(locations) - 1) |-> i],
                          LAMBDA i : diff(i) >= 0)
    IN [k \in 1..Len(kept) |->
           SpeedSegment(locations[kept[k]], locations[kept[k] + 1])]

createSpeedSegments(locations) ==
    IF Len(locations) < 2 THEN <<>> ELSE SegmentsFrom(locations, 1, <<>>)

\* the points handed to createSpeedSegments: documents a second apart, a
\* legacy one with a Date, one read back from the cache that does not resolve
GeoInputs ==
    {GeoPoint(0, 0, 1000, RawTimestamp("Timestamp", 1000)),
     GeoPoint(5, 0, 2000, RawTimestamp("Timestamp", 2000)),
     GeoPoint(30, 0, 3000, RawTimestamp("Timestamp", 3000)),
     GeoPoint(10, 0, 0, RawTimestamp("Date", 2000)),
     GeoPoint(20, 0, 0, RawTimestamp("string", 2500))}

\* the speeds handed to getColorForSpeed: around every threshold, in halves
SpeedInputs ==
    {Kmh(n, d) : n \in {-1, 0, 4, 5, 9, 10, 11, 19, 20, 39, 40, 41, 49, 50,
                        99, 100, 101, 79, 80, 159, 160, 161},
                 d \in {1, 2}}

Segments(locations) ==
    /\ call' = Call("createSpeedSegments", "", locations, TRUE, NoEntry,
                    FALSE, createSpeedSegments(locations), 0)
    /\ UNCHANGED <<engine, localStorage, now>>

Classify(speedKmh) ==
    /\ call' = Call("getColorForSpeed", "", <<speedKmh>>, TRUE, NoEntry,
                    FALSE, <<getColorForSpeed(speedKmh)>>, 0)
    /\ UNCHANGED <<engine, localStorage, now>>

(* ---------------------------- specification ---------------------------- *)
\* LiveMap mounts with no sessions; localStorage may hold what an earlier
\* page load cached: the first points of the session, saved at time 0
Init ==
    /\ sessions = <<>>
    /\ runs = <<>>
    /\ hasCleanup = FALSE
    /\ pollingIntervalRef = 0
    /\ timers = {}
    /\ sessionsWithLocations = [s \in SessionIds |-> NoView]
    /\ lastTimestampsRef = [s \in SessionIds |-> 0]
    /\ now = 0
    /\ remote = [s \in SessionIds |-> IF s = "a" THEN 1 ELSE 0]
    /\ \E c \in [SessionIds -> 0..1] :
         /\ \A s \in SessionIds : c[s] <= remote[s]
         /\ localStorage = [s \in SessionIds |->
               IF c[s] = 0 THEN NoEntry
               ELSE CachedSession(stringify(Range(0, c[s])), c[s], 0,
                                  CACHE_VERSION)]
    /\ inflight = EmptyBag
    /\ stalled = {}
    /\ call = NoCall

Next ==
    \/ \E ss \in SessionLists : SetSessions(ss)
    \/ \E r \in 1..Len(runs) : StartupDelayDone(r)
    \/ \E r \in 1..Len(runs) : FullFetchOk(r)
    \/ \E r \in 1..Len(runs) : FullFetchFail(r)
    \/ \E r \in 1..Len(runs) : Tick(r)
    \/ \E f \in BagToSet(inflight) : DeltaOk(f)
    \/ \E f \in BagToSet(inflight) : DeltaFail(f)
    \/ \E s \in SessionIds : RemoteAppend(s)

Spec == Init /\ [][Next]_vars

\* the first tracked set only, and one fetch that never resolves
NextStall ==
    \/ \E ss \in SessionLists : runs = <<>> /\ SetSessions(ss)
    \/ \E r \in 1..Len(runs) : StartupDelayDone(r)
    \/ \E r \in 1..Len(runs) : FullFetchOk(r)
    \/ \E r \in 1..Len(runs) : FullFetchFail(r)
    \/ \E r \in 1..Len(runs) : FullFetchStall(r)
    \/ \E r \in 1..Len(runs) : Tick(r)
    \/ \E f \in BagToSet(inflight) : DeltaOk(f)
    \/ \E f \in BagToSet(inflight) : DeltaFail(f)
    \/ \E f \in BagToSet(inflight) : DeltaStall(f)
    \/ \E s \in SessionIds : RemoteAppend(s)

SpecStall == Init /\ [][NextStall]_vars

\* the cache alone: any caller, any stored values, any order of calls
InitCache ==
    /\ sessions = <<>>
    /\ runs = <<>>
    /\ hasCleanup = FALSE
    /\ pollingIntervalRef = 0
    /\ timers = {}
    /\ sessionsWithLocations = [s \in SessionIds |-> NoView]
    /\ lastTimestampsRef = [s \in SessionIds |-> 0]
    /\ now = 0
    /\ remote = [s \in SessionIds |-> 0]
    /\ localStorage \in [SessionIds -> StoredAtLoad]
    /\ inflight = EmptyBag
    /\ stalled = {}
    /\ call = NoCall

NextCache ==
    \/ \E id \in SessionIds, points \in InputSeqs, ok \in BOOLEAN :
          Save(id, points, ok)
    \/ \E id \in SessionIds : Load(id)
    \/ \E id \in SessionIds, points \in InputSeqs, ok \in BOOLEAN :
          AppendPoints(id, points, ok)
    \/ \E id \in SessionIds : Clear(id)
    \/ ClearOld
    \/ \E t \in ClockTimes : AdvanceClock(t)

SpecCache == InitCache /\ [][NextCache]_vars

\* the first tracked set of a page load that finds anything under the key
\* of the first session, with time passing while the map is open
InitHydrate ==
    /\ sessions = <<>>
    /\ runs = <<>>
    /\ hasCleanup = FALSE
    /\ pollingIntervalRef = 0
    /\ timers = {}
    /\ sessionsWithLocations = [s \in SessionIds |-> NoView]
    /\ lastTimestampsRef = [s \in SessionIds |-> 0]
    /\ now = 0
    /\ remote = [s \in SessionIds |-> IF s = "a" THEN 1 ELSE 0]
    /\ \E stored \in StoredAtLoad :
         localStorage = [s \in SessionIds |->
                            IF s = "a" THEN stored ELSE NoEntry]
    /\ inflight = EmptyBag
    /\ stalled = {}
    /\ call = NoCall

NextHydrate ==
    \/ \E ss \in SessionLists : runs = <<>> /\ SetSessions(ss)
    \/ \E r \in 1..Len(runs) : StartupDelayDone(r)
    \/ \E r \in 1..Len(runs) : FullFetchOk(r)
    \/ \E r \in 1..Len(runs) : FullFetchFail(r)
    \/ \E r \in 1..Len(runs) : Tick(r)
    \/ \E f \in BagToSet(inflight) : DeltaOk(f)
    \/ \E f \in BagToSet(inflight) : DeltaFail(f)
    \/ \E s \in SessionIds : RemoteAppend(s)
    \/ \E t \in ClockTimes : AdvanceClock(t)

SpecHydrate == InitHydrate /\ [][NextHydrate]_vars

\* speedColors alone: any sequence of points, any speed
InitColors ==
    /\ sessions = <<>>
    /\ runs = <<>>
    /\ hasCleanup = FALSE
    /\ pollingIntervalRef = 0
    /\ timers = {}
    /\ sessionsWithLocations = [s \in SessionIds |-> NoView]
    /\ lastTimestampsRef = [s \in SessionIds |-> 0]
    /\ now = 0
    /\ remote = [s \in SessionIds |-> 0]
    /\ localStorage = [s \in SessionIds |-> NoEntry]
    /\ inflight = EmptyBag
    /\ stalled = {}
    /\ call = NoCall

NextColors ==
    \/ \E locations \in SeqsUpTo(GeoInputs, MaxLocs) : Segments(locations)
    \/ \E speedKmh \in SpeedInputs : Classify(speedKmh)

SpecColors == InitColors /\ [][NextColors]_vars

(* ------------------------------ claims --------------------------------- *)
Tracked == {sessions[k] : k \in 1..Len(sessions)}

\* the delta fetches of the given kind in flight for session s
InFlight(kind, s) ==
    LET fs == {f \in BagToSet(inflight) : f.kind = kind /\ FetchSession(f) = s}
    IN BagCardinality([f \in fs |-> CopiesIn(f, inflight)])

\* C1: for every session, at most one delta fetch issued by the poll ticks is
\* in flight at any time.
C1_OnePollFetchPerSession ==
    \A s \in SessionIds : InFlight("poll", s) <= 1

\* C2: hydration's catch-up fetch for a session and a poll tick's delta fetch
\* for the same session are never in flight at the same time.
C2_CatchUpExcludesPoll ==
    \A s \in SessionIds : ~(InFlight("catchup", s) > 0 /\ InFlight("poll", s) > 0)

\* C4: in every state and for every session, the in-memory points and the
\* cached points are non-decreasing in timestamp.
C4_SequencesNonDecreasing ==
    \A s \in SessionIds :
        /\ NonDecreasing(sessionsWithLocations[s].locations)
        /\ NonDecreasing(localStorage[s].points)

\* C5: no polling timer of an earlier run of the effect is active after the
\* tracked set changed: the only timer that may be active is the one of the
\* latest run, so at most one is.
C5_OnlyCurrentTimer ==
    /\ Cardinality(timers) <= 1
    /\ \A r \in timers : r = Len(runs)

\* the in-memory copy of session s that came from the cache entry as it is
\* stored now: in the view, or in the results of a loadAllSessions under way
AdoptedFromCache(s) ==
    /\ localStorage[s].kind = "entry"
    /\ lastTimestampsRef[s] = localStorage[s].lastTimestamp
    /\ \/ /\ sessionsWithLocations[s].present
          /\ sessionsWithLocations[s].locations = localStorage[s].points
       \/ \E r \in 1..Len(runs) :
            /\ runs[r].phase = "fetching"
            /\ \E k \in 1..Len(runs[r].results) :
                 runs[r].results[k] =
                    [session |-> s, locations |-> localStorage[s].points]

\* C3: when the in-memory copy of a session was adopted from the cache with
\* cursor T and a delta fetch returns n > 0 points, all newer than T, then
\* after the merge the view holds the cached count plus n points of the
\* session and the cursor is the largest timestamp among them.
C3_MergeCountAndCursor ==
    [][\A f \in BagToSet(inflight) :
         LET s == FetchSession(f)
             newPoints == Range(f.cur, f.hi)
         IN (/\ DeltaOk(f)
             /\ AdoptedFromCache(s)
             /\ newPoints # <<>>
             /\ f.cur >= lastTimestampsRef[s])
            => /\ sessionsWithLocations'[s].present
               /\ Len(sessionsWithLocations'[s].locations)
                     = Len(localStorage[s].points) + Len(newPoints)
               /\ lastTimestampsRef'[s]
                     = SeqMax(sessionsWithLocations'[s].locations)]_vars

\* C6: a delta fetch that resolves for a session that is not tracked any
\* more changes neither the cache, nor the view, nor the cursor map.
C6_UntrackedResultDiscarded ==
    [][\A f \in BagToSet(inflight) :
         (DeltaOk(f) /\ FetchSession(f) \notin Tracked)
            => UNCHANGED <<localStorage, sessionsWithLocations,
                           lastTimestampsRef>>]_vars

\* the sessions whose cache entry a step of run r's loadAllSessions reads
CacheLoadsBy(r) ==
    LET from == IF runs[r].phase = "delay" THEN 1 ELSE runs[r].i + 1
        to == IF runs'[r].phase = "polling" THEN Len(runs[r].ss)
              ELSE runs'[r].i
    IN {runs[r].ss[k] : k \in from..to}

\* C7: after the tracked set changed, no cache load and no full fetch is
\* made for a session that was tracked before the change and still is.
C7_NoRehydration ==
    [][\A r \in 1..Len(runs) :
         (StartupDelayDone(r) \/ FullFetchOk(r) \/ FullFetchFail(r))
            => \A s \in CacheLoadsBy(r) :
                  s \notin {runs[r].prev[k] : k \in 1..Len(runs[r].prev)}]_vars

\* the next delta fetch of the tick loop that awaited f, as issued when f ended
NextOfLoop(f) ==
    Fetch("poll", f.ss, f.i + 1, lastTimestampsRef[f.ss[f.i + 1]],
          remote[f.ss[f.i + 1]], TRUE)

\* C8: a failed delta fetch leaves the cache, the view and the cursor map as
\* they were and does not stop its tick: the loop goes on to fetch the next
\* session; and every tick reads the cursor anew, so the session's next
\* fetch asks for the points after the same cursor.
C8_FailedFetchLeavesState ==
    [][/\ \A f \in BagToSet(inflight) :
            DeltaFail(f)
              => /\ UNCHANGED <<localStorage, sessionsWithLocations,
                                lastTimestampsRef>>
                 /\ (f.kind = "poll" /\ f.i < Len(f.ss))
                      => CopiesIn(NextOfLoop(f), inflight')
                            > CopiesIn(NextOfLoop(f), inflight (-) One(f))
       /\ \A r \in 1..Len(runs) :
            Tick(r)
              => \E g \in BagToSet(inflight') :
                    /\ CopiesIn(g, inflight') > CopiesIn(g, inflight)
                    /\ g.i = 1 /\ g.ss = runs[r].ss
                    /\ g.cur = lastTimestampsRef[runs[r].ss[1]]]_vars

\* a tick loop went on to its next session after a failed fetch, and the
\* session whose fetch failed still has points to fetch after its cursor
C8_Witness ==
    \E g \in BagToSet(inflight) :
        /\ g.kind = "poll" /\ g.caught /\ g.i > 1
        /\ lastTimestampsRef[g.ss[g.i - 1]] < remote[g.ss[g.i - 1]]
        /\ g.ss[g.i - 1] \in Tracked
        /\ sessionsWithLocations[g.ss[g.i - 1]].present

Elems(seq) == {seq[k] : k \in 1..Len(seq)}

\* C9: a fetch for one session that never resolves leaves the other tracked
\* sessions unaffected: a run that waits for such a fetch has every other
\* session of its list in the view, with its polling timer running.
C9_StallLeavesOthersPolled ==
    \A r \in 1..Len(runs) :
        runs[r].phase = "hung"
          => \A s \in Elems(runs[r].ss) \ {runs[r].ss[runs[r].i]} :
                /\ sessionsWithLocations[s].present
                /\ r \in timers

Timestamps(seq) == {TimestampMs(seq[k]) : k \in 1..Len(seq)}

\* the latest run's loadAllSessions is still under way and holds, for
\* session s, points adopted before newPoints arrived
StaleResults(s, newPoints) ==
    /\ runs # <<>>
    /\ runs[Len(runs)].phase = "fetching"
    /\ \E k \in 1..Len(runs[Len(runs)].results) :
         /\ runs[Len(runs)].results[k].session = s
         /\ ~(Timestamps(newPoints) \subseteq
                 Timestamps(runs[Len(runs)].results[k].locations))

\* C10: the points a catch-up fetch brings for a tracked session reach the
\* session's view: when the fetch resolves, either the cursor still lies
\* before them, so that the next poll asks for them again, or they are in
\* the points that hydration is going to display.
C10_CatchUpPointsReachView ==
    [][\A f \in BagToSet(inflight) :
         LET s == FetchSession(f)
             newPoints == Range(f.cur, f.hi)
         IN (/\ DeltaOk(f)
             /\ f.kind = "catchup"
             /\ newPoints # <<>>
             /\ s \in Tracked)
            => \/ lastTimestampsRef'[s] < TimestampMs(newPoints[1])
               \/ ~StaleResults(s, newPoints)']_vars

\* C11: for a tracked session, a delta fetch that resolves with points has
\* its three merge effects together: the points are appended to the cache
\* entry exactly when they are appended to the session's points in the view
\* and the cursor has become the timestamp of the newest fetched point.
C11_MergeEffectsTogether ==
    [][\A f \in BagToSet(inflight) :
         LET s == FetchSession(f)
             newPoints == Range(f.cur, f.hi)
             cachedBefore == IF localStorage[s].kind = "entry"
                             THEN localStorage[s].points ELSE <<>>
         IN (/\ DeltaOk(f)
             /\ s \in Tracked
             /\ newPoints # <<>>)
            => ((/\ localStorage'[s].kind = "entry"
                 /\ localStorage'[s].points
                       = cachedBefore \o stringify(newPoints))
                <=> (/\ sessionsWithLocations'[s].present
                     /\ sessionsWithLocations'[s].locations
                           = sessionsWithLocations[s].locations \o newPoints
                     /\ lastTimestampsRef'[s]
                           = TimestampMs(Last(newPoints))))]_vars

\* the stored value e is an entry older than the retention window at t
Expired(e, t) == e.kind = "entry" /\ t - e.cachedAt > MAX_CACHE_AGE_MS

\* the stored value e is an entry that load returns at t
Usable(e, t) ==
    e.kind = "entry" /\ e.version = CACHE_VERSION /\ ~Expired(e, t)

\* the points load(id) returns, none when it returns nothing
Existing(id) ==
    IF Usable(localStorage[id], now) THEN localStorage[id].points ELSE <<>>

\* C12: a load that follows a save of the same session, with no call of the
\* cache in between and inside the retention window, returns exactly the
\* points that were saved, in the same order.
C12_RoundTrip ==
    [][LET id == call'.sessionId
       IN (/\ call'.op = "load" /\ Load(id)
           /\ call.op = "save" /\ call.sessionId = id /\ call.writeOk
           /\ ~Expired(localStorage[id], now))
            => /\ call'.found
               /\ call'.returned = call.points]_vars

\* C13: the lastTimestamp of an entry written by save or append is the
\* resolved timestamp of the last point of the sequence written (timestampMs
\* if non-zero, else the Date's or the Timestamp's milliseconds), and the
\* time of the save only when the sequence is empty or the last point does
\* not resolve.
C13_LastTimestampResolved ==
    [][LET id == call'.sessionId
           points == call'.points
           written == IF call'.op = "save" THEN points
                      ELSE Existing(id) \o points
       IN (/\ call'.writeOk
           /\ \/ call'.op = "save" /\ Save(id, points, TRUE)
              \/ call'.op = "append" /\ AppendPoints(id, points, TRUE))
            => localStorage'[id].lastTimestamp =
                  IF written = <<>> \/ resolveMillis(Last(written)) = 0
                  THEN now
                  ELSE resolveMillis(Last(written))]_vars

\* C14: a load of an entry of the current version returns nothing and
\* removes the entry exactly when now - cachedAt is above 24 hours; otherwise
\* it returns the stored points and lastTimestamp and leaves storage as it is.
C14_ExpiryAtLoad ==
    [][LET id == call'.sessionId
       IN (/\ call'.op = "load" /\ Load(id)
           /\ localStorage[id].kind = "entry"
           /\ localStorage[id].version = CACHE_VERSION)
            => IF now - localStorage[id].cachedAt > 24 * 60 * 60 * 1000
               THEN /\ ~call'.found
                    /\ localStorage' = [localStorage EXCEPT ![id] = NoEntry]
               ELSE /\ call'.found
                    /\ call'.returned = localStorage[id].points
                    /\ call'.lastTimestamp = localStorage[id].lastTimestamp
                    /\ localStorage' = localStorage]_vars

\* an entry exactly 24 hours old was loaded and returned, and is still stored
C14_Witness ==
    /\ call.op = "load" /\ call.found
    /\ call.before.kind = "entry"
    /\ now - call.before.cachedAt = MAX_CACHE_AGE_MS
    /\ call.returned = call.before.points /\ call.returned # <<>>
    /\ localStorage[call.sessionId] = call.before

\* C15: a load of an entry whose version tag is not the current one returns
\* nothing and removes the entry, whatever the entry's age.
C15_VersionMismatchEvicts ==
    [][LET id == call'.sessionId
       IN (/\ call'.op = "load" /\ Load(id)
           /\ localStorage[id].kind = "entry"
           /\ localStorage[id].version # CACHE_VERSION)
            => /\ ~call'.found
               /\ call'.returned = <<>>
               /\ localStorage' = [localStorage EXCEPT ![id] = NoEntry]]_vars

\* an entry of another version, not yet 24 hours old, was loaded: nothing
\* was returned and the key is gone
C15_Witness ==
    /\ call.op = "load" /\ ~call.found
    /\ call.before.kind = "entry"
    /\ call.before.version # CACHE_VERSION
    /\ ~Expired(call.before, now)
    /\ localStorage[call.sessionId] = NoEntry

\* C16 as stated: append(id, newPoints) leaves storage in the state that
\* save(id, existing ++ newPoints) leaves it in, existing being what load(id)
\* returns, empty when it returns nothing.
C16_AppendIsSave ==
    [][LET id == call'.sessionId
           points == call'.points
           ok == call'.writeOk
       IN (call'.op = "append" /\ AppendPoints(id, points, ok))
            => localStorage' = saveSessionPoints(localStorage, id,
                                   Existing(id) \o points, now, ok)]_vars

\* C16 amended: an append whose write goes through leaves under id an entry
\* of the current version, stamped now, holding the points load(id) returns
\* followed by the new points, in order and with none dropped, and leaves
\* every other key as it was; an append whose write fails leaves under id
\* what load(id) left there: the entry it returned, else nothing.
C16_AppendConcatenates ==
    [][LET id == call'.sessionId
           points == call'.points
           ok == call'.writeOk
       IN (call'.op = "append" /\ AppendPoints(id, points, ok))
            => IF ok
               THEN /\ localStorage'[id].kind = "entry"
                    /\ localStorage'[id].version = CACHE_VERSION
                    /\ localStorage'[id].cachedAt = now
                    /\ localStorage'[id].points
                          = Existing(id) \o stringify(points)
                    /\ \A k \in SessionIds \ {id} :
                          localStorage'[k] = localStorage[k]
               ELSE localStorage'[id] =
                       IF Usable(localStorage[id], now)
                       THEN localStorage[id] ELSE NoEntry]_vars

\* an append added a point to an entry that held a different one
C16_Witness ==
    /\ call.op = "append" /\ call.writeOk
    /\ call.before.kind = "entry" /\ Len(call.before.points) = 1
    /\ Len(call.points) = 1
    /\ stringify(call.points) # call.before.points
    /\ localStorage[call.sessionId].kind = "entry"
    /\ localStorage[call.sessionId].points
          = call.before.points \o stringify(call.points)

\* C17 as stated: a save whose write fails leaves the entry stored for id as
\* it was, does not store the new points, and has removed every expired
\* entry under the prefix.
C17_FailedSaveKeepsEntry ==
    [][LET id == call'.sessionId
           points == call'.points
       IN (call'.op = "save" /\ Save(id, points, FALSE))
            => /\ localStorage[id].kind = "entry"
                    => localStorage'[id] = localStorage[id]
               /\ localStorage'[id] = localStorage[id]
                    \/ localStorage'[id] = NoEntry
               /\ \A k \in SessionIds :
                     Expired(localStorage[k], now)
                        => localStorage'[k] = NoEntry]_vars

\* C17 amended: a save whose write fails returns to its caller, stores
\* nothing new, has removed every expired entry under the prefix, the one
\* of id included, and leaves every entry that is not expired as it was.
C17_FailedSaveEvictsExpired ==
    [][LET id == call'.sessionId
           points == call'.points
       IN (call'.op = "save" /\ Save(id, points, FALSE))
            => \A k \in SessionIds :
                  localStorage[k].kind = "entry"
                     => localStorage'[k] =
                           IF Expired(localStorage[k], now) THEN NoEntry
                           ELSE localStorage[k]]_vars

\* a save failed while id held an expired entry and the other session an
\* entry still in its window: the first is gone, the second is kept
C17_Witness ==
    /\ call.op = "save" /\ ~call.writeOk /\ call.points # <<>>
    /\ Expired(call.before, now)
    /\ localStorage[call.sessionId] = NoEntry
    /\ \E k \in SessionIds \ {call.sessionId} :
          localStorage[k].kind = "entry" /\ ~Expired(localStorage[k], now)

\* C18: a load of a stored value that cannot be parsed returns nothing and
\* leaves storage as it was, the unparseable value included.
C18_CorruptLoadKeepsStorage ==
    [][LET id == call'.sessionId
       IN (/\ call'.op = "load" /\ Load(id)
           /\ localStorage[id].kind = "garbage")
            => /\ ~call'.found
               /\ call'.returned = <<>>
               /\ localStorage' = localStorage]_vars

\* an unparseable value was loaded and is still stored under its key
C18_Witness ==
    /\ call.op = "load" /\ ~call.found
    /\ call.before.kind = "garbage"
    /\ localStorage[call.sessionId].kind = "garbage"

\* C19: clearOldCaches removes the expired entries and nothing else: every
\* entry older than the retention window is gone, every other stored value,
\* unparseable ones included, is as it was.
C19_ClearOldOnlyExpired ==
    [][(call'.op = "clearOld" /\ ClearOld)
          => \A k \in SessionIds :
                localStorage'[k] =
                   IF Expired(localStorage[k], now) THEN NoEntry
                   ELSE localStorage[k]]_vars

\* C20 as stated: a save, load, append or clear on one session leaves the
\* stored entry of every other session as it was, also when its write fails.
C20_OtherSessionsUntouched ==
    [][LET id == call'.sessionId
           points == call'.points
           ok == call'.writeOk
       IN (\/ call'.op = "save" /\ Save(id, points, ok)
           \/ call'.op = "load" /\ Load(id)
           \/ call'.op = "append" /\ AppendPoints(id, points, ok)
           \/ call'.op = "clear" /\ Clear(id))
            => \A k \in SessionIds \ {id} :
                  localStorage[k].kind = "entry"
                     => localStorage'[k] = localStorage[k]]_vars

\* C20 amended: a save, load, append or clear on one session leaves the
\* stored entry of every other session as it was, except that a save or an
\* append whose write fails removes the other sessions' entries that are
\* expired.
C20_OtherSessionsKeptUnlessEvicted ==
    [][LET id == call'.sessionId
           points == call'.points
           ok == call'.writeOk
       IN (\/ call'.op = "save" /\ Save(id, points, ok)
           \/ call'.op = "load" /\ Load(id)
           \/ call'.op = "append" /\ AppendPoints(id, points, ok)
           \/ call'.op = "clear" /\ Clear(id))
            => \A k \in SessionIds \ {id} :
                  localStorage[k].kind = "entry"
                     => localStorage'[k] =
                           IF /\ call'.op \in {"save", "append"} /\ ~ok
                              /\ Expired(localStorage[k], now)
                           THEN NoEntry
                           ELSE localStorage[k]]_vars

\* one session's expired entry was loaded, hence removed, while the other
\* session's entry, expired as well, stayed
C20_Witness ==
    /\ call.op = "load" /\ ~call.found
    /\ Expired(call.before, now)
    /\ localStorage[call.sessionId] = NoEntry
    /\ \E k \in SessionIds \ {call.sessionId} : Expired(localStorage[k], now)

\* C21: during hydration a full fetch is issued for a session exactly when
\* the cache load for it returns nothing (no entry, unparseable value, other
\* version, expired entry); when the load returns an entry, none is issued.
C21_FullFetchIffAbsent ==
    [][\A r \in 1..Len(runs) :
         (StartupDelayDone(r) \/ FullFetchOk(r) \/ FullFetchFail(r))
            => \A s \in CacheLoadsBy(r) :
                  (/\ runs'[r].phase = "fetching"
                   /\ runs'[r].ss[runs'[r].i] = s)
                  <=> ~(/\ localStorage[s].kind = "entry"
                        /\ localStorage[s].version = "v1"
                        /\ now - localStorage[s].cachedAt
                              <= 24 * 60 * 60 * 1000)]_vars

\* a full fetch is awaited for a session whose key holds an unparseable value
C21_Witness ==
    \E r \in 1..Len(runs) :
        /\ runs[r].phase = "fetching"
        /\ localStorage[runs[r].ss[runs[r].i]].kind = "garbage"

\* the points run r has adopted for session s after a step: those in the
\* view once its loadAllSessions is over, else those in its results
AdoptedAfter(r, s) ==
    IF runs'[r].phase = "polling"
    THEN IF sessionsWithLocations'[s].present
         THEN {sessionsWithLocations'[s].locations} ELSE {}
    ELSE {runs'[r].results[k].locations :
             k \in {j \in 1..Len(runs'[r].results) :
                       runs'[r].results[j].session = s}}

\* C22: when the full fetch of a session's hydration fails, a fallback full
\* fetch ordered by the other timestamp field is issued and its result is
\* adopted: the session is not left out of what hydration displays.
C22_FallbackAdopted ==
    [][\A r \in 1..Len(runs) :
         FullFetchFail(r)
            => \/ runs'[r].phase = "fallback"
               \/ AdoptedAfter(r, runs[r].ss[runs[r].i]) # {}]_vars

\* C23: a tracked session whose hydration failed recovers on a later cycle:
\* when a later poll fetch for it brings its points, the session is in the
\* view with those points.
C23_RecoversOnLaterPoll ==
    [][\A f \in BagToSet(inflight) :
         LET s == FetchSession(f)
             newPoints == Range(f.cur, f.hi)
         IN (/\ DeltaOk(f)
             /\ f.kind = "poll"
             /\ newPoints # <<>>
             /\ s \in Tracked)
            => /\ sessionsWithLocations'[s].present
               /\ Timestamps(newPoints)
                     \subseteq Timestamps(sessionsWithLocations'[s].locations)]_vars

\* the timestamps of a sequence of points, in order
PointIds(seq) == [k \in 1..Len(seq) |-> TimestampMs(seq[k])]

\* C24: when the full fetch of a session's hydration returns points, the
\* cache entry holds them in ascending order, the points adopted for the
\* view are the same sequence and the cursor is the last one's timestamp;
\* when it returns none, no entry is written, an empty sequence is adopted
\* and the cursor is 0 for the first poll.
C24_FullFetchAdopted ==
    [][\A r \in 1..Len(runs) :
         LET s == runs[r].ss[runs[r].i]
             n == runs[r].hi
         IN FullFetchOk(r)
            => IF n > 0
               THEN /\ localStorage'[s].kind = "entry"
                    /\ PointIds(localStorage'[s].points) = [k \in 1..n |-> k]
                    /\ \E adopted \in AdoptedAfter(r, s) :
                          PointIds(adopted) = [k \in 1..n |-> k]
                    /\ lastTimestampsRef'[s] = n
               ELSE /\ localStorage'[s] = localStorage[s]
                    /\ <<>> \in AdoptedAfter(r, s)
                    /\ lastTimestampsRef'[s] = 0]_vars

\* the pairs (i, i + 1) of locations whose time difference is strictly
\* positive, in input order
PositivePairs(locations) ==
    SelectSeq([i \in 1..(Len(locations) - 1) |-> i],
              LAMBDA i : resolveMillis(locations[i + 1])
                           - resolveMillis(locations[i]) > 0)

\* C25: createSpeedSegments emits, in input order, exactly one segment for
\* each consecutive pair whose resolved time difference is strictly positive
\* and none for a pair whose difference is zero or negative; fewer than two
\* points give the empty sequence.  (The function assigns to nothing but its
\* own local array, so its input is the same sequence after the call.)
C25_OneSegmentPerPositivePair ==
    call.op = "createSpeedSegments" =>
        LET locations == call.points
            segments == call.returned
            pairs == PositivePairs(locations)
        IN /\ Len(locations) < 2 => segments = <<>>
           /\ Len(segments) = Len(pairs)
           /\ \A k \in 1..Len(pairs) :
                 segments[k].positions =
                     << <<locations[pairs[k]].latitude,
                          locations[pairs[k]].longitude>>,
                        <<locations[pairs[k] + 1].latitude,
                          locations[pairs[k] + 1].longitude>> >>

\* three points: the first pair has a zero difference and is skipped, the
\* second is emitted
C25_Witness ==
    /\ call.op = "createSpeedSegments"
    /\ Len(call.points) = 3
    /\ resolveMillis(call.points[1]) = resolveMillis(call.points[2])
    /\ resolveMillis(call.points[2]) < resolveMillis(call.points[3])
    /\ Len(call.returned) = 1

\* speed < limit and speed >= limit of a finite speed, for the claims
Under(speedKmh, limit) == speedKmh.num < limit * speedKmh.den

AtLeast(speedKmh, limit) == speedKmh.num >= limit * speedKmh.den

\* C26: getColorForSpeed maps a speed below 5 km/h (negative ones included)
\* to the stationary colour, 5 <= speed < 20 to walking, 20 <= speed < 50 to
\* slow-drive, 50 <= speed < 80 to fast-drive and speed >= 80 to highway:
\* each threshold belongs to the higher class
C26_ThresholdsInclusiveLow ==
    (call.op = "getColorForSpeed" /\ call.points[1].den > 0) =>
        LET speedKmh == call.points[1]
            color == call.returned[1]
        IN /\ Under(speedKmh, 5) => color = "#10B981"
           /\ AtLeast(speedKmh, 5) /\ Under(speedKmh, 20) => color = "#3B82F6"
           /\ AtLeast(speedKmh, 20) /\ Under(speedKmh, 50) => color = "#F59E0B"
           /\ AtLeast(speedKmh, 50) /\ Under(speedKmh, 80) => color = "#F97316"
           /\ AtLeast(speedKmh, 80) => color = "#EF4444"

\* a speed of exactly 5 km/h, given as 10 / 2, is classified as walking
C26_Witness ==
    /\ call.op = "getColorForSpeed"
    /\ call.points[1] = Kmh(10, 2)
    /\ call.returned[1] = "#3B82F6"

\* C27: the view holds entries only for tracked sessions: when a run of
\* the effect that started before the tracked set changed ends its
\* hydration, the view it sets holds no session that is not tracked now
C27_ViewOnlyTracked ==
    [][\A r \in 1..Len(runs) :
         ((StartupDelayDone(r) \/ FullFetchOk(r) \/ FullFetchFail(r))
            /\ runs'[r].phase = "polling")
         => \A s \in SessionIds :
               sessionsWithLocations'[s].present => s \in Tracked]_vars

\* C28: the cursor of a session never decreases
C28_CursorNeverDecreases ==
    [][\A s \in SessionIds :
         lastTimestampsRef'[s] >= lastTimestampsRef[s]]_vars

\* every point of seq has a timestamp of its own
NoRepeat(seq) ==
    \A j, k \in 1..Len(seq) :
        TimestampMs(seq[j]) = TimestampMs(seq[k]) => j = k

\* C29: no remote point appears twice in a session's in-memory points or
\* in its cache entry
C29_NoPointTwice ==
    \A s \in SessionIds :
        /\ NoRepeat(sessionsWithLocations[s].locations)
        /\ NoRepeat(localStorage[s].points)

\* C30: a cache entry that load returns holds every remote point of its
\* session up to the entry's lastTimestamp
C30_LoadedEntryGapFree ==
    \A s \in SessionIds :
        Usable(localStorage[s], now) =>
            \A k \in 1..remote[s] :
                k <= localStorage[s].lastTimestamp
                    => k \in Timestamps(localStorage[s].points)

====
